---- MODULE Spec2Model ----
(***************************************************************************)
(* State-machine model of src/index.tsx: the quiz session of the browser   *)
(* page.  One action per event handler; an async handler is split at its   *)
(* single await (the call to the generative model) into the part that runs *)
(* on the event and the part that runs when the call returns.  Everything  *)
(* a handler does synchronously is one atomic step, as in the browser's    *)
(* event loop.                                                             *)
(*                                                                         *)
(* A handler can run when the element it listens on is not disabled and    *)
(* is in the document; the page's markup and style sheet are not part of   *)
(* the sources, so no visibility of an element is assumed.                 *)
(* An element that the script shows and hides (the form error, the error   *)
(* block, the results) is Null while hidden and Some(content) while shown: *)
(* the script writes its text in the very step that shows it, so the text  *)
(* of a hidden element is never seen.  Button captions, focus and          *)
(* scrolling are not modelled.                                             *)
(***************************************************************************)
EXTENDS Integers, Sequences, FiniteSets, TLC

\* ---------------------------------------------------------------- bounds
MaxQuestions == 2      \* longest question list one response carries
MaxRequests  == 3      \* generation requests started in one behaviour
MaxTotal     == 40     \* largest question count of the scoring specification

\* ---------------------------------------------------- program constants
MinTranscriptLen == 100
VideoIdLen       == 11

\* ---------------------------------------------------------------- values
Null    == <<>>                \* null: an optional value is <<>> or <<v>>
Some(v) == <<v>>

\* A URL as the pattern of getYouTubeID sees it: whether one of the markers
\* occurs, and the token between the marker and the next '#', '&' or '?'.
Urls ==
    { [marker |-> TRUE,  token |-> "dQw4w9WgXcQ", tokenLen |-> 11],
      [marker |-> TRUE,  token |-> "short",       tokenLen |-> 5],
      [marker |-> FALSE, token |-> "",            tokenLen |-> 0] }

EmptyUrl == [marker |-> FALSE, token |-> "", tokenLen |-> 0]

\* A text-area value: pad characters of white space around a body of len
\* characters that starts and ends with none.
Transcripts ==
    { [pad |-> 0, body |-> "T1",    len |-> 100],
      [pad |-> 2, body |-> "T2",    len |-> 240],
      [pad |-> 5, body |-> "brief", len |-> 99] }

EmptyText == [pad |-> 0, body |-> "", len |-> 0]

\* String.prototype.trim
trim(v) == [pad |-> 0, body |-> v.body, len |-> v.len]

\* String.prototype.length
length(v) == v.pad + v.len

\* The questions a response is made of.  The response schema fixes the
\* fields only: nothing makes the answer one of the options.
Questions ==
    << [question |-> "q1", options |-> <<"a", "b">>, answer |-> "b"],
       [question |-> "q2", options |-> <<"a">>,      answer |-> "c"] >>

\* the list of n questions that takes the questions in turn
QuizData(n) == [i \in 1..n |-> Questions[((i - 1) % Len(Questions)) + 1]]

\* What the awaited call can deliver: a rejection or unparsable text, or a
\* parsed array of schema-conforming questions (possibly empty).
Responses ==
    { [ok |-> FALSE, quizData |-> <<>>] }
    \cup { [ok |-> TRUE, quizData |-> QuizData(n)] : n \in 0..MaxQuestions }
    \cup { [ok |-> TRUE, quizData |-> <<Questions[2]>>] }

\* What the user has typed when the form is submitted: url and transcript.
Forms ==
    { f \in Urls \X Transcripts : f[1].tokenLen = VideoIdLen \/ f[2].body = "T1" }

\* ----------------------------------------------------------------- state
VARIABLES
    \* module-level variables of the page script
    totalQuestions, answeredQuestions, correctAnswers,
    currentTranscript, currentVideoId, previousQuestions,
    \* the document
    urlInput, transcriptInput,       \* values of the two form fields
    formError,                       \* Null while hidden, or Some(the text shown)
    outputHidden,                    \* outputContainer has class 'hidden'
    videoContainer,                  \* Null, or Some(id) of the embedded iframe
    errorMessage,                    \* Null while hidden, or Some(the text shown)
    questionsList,                   \* the question blocks, in document order
    resultsContainer,                \* Null while not displayed, or Some(what it shows)
    loaderShown, generateDisabled, retakeDisabled, restartDisabled,
    \* the suspended async handlers: Null, or Some(locals and request)
    submitCall, retakeCall,
    \* number of generation requests started so far
    requests,
    \* for the history's provenance: the transcripts of the prompts whose
    \* calls returned the questions now in previousQuestions
    historyFrom

vars == << totalQuestions, answeredQuestions, correctAnswers,
           currentTranscript, currentVideoId, previousQuestions,
           urlInput, transcriptInput, formError, outputHidden, videoContainer,
           errorMessage, questionsList, resultsContainer,
           loaderShown, generateDisabled, retakeDisabled, restartDisabled,
           submitCall, retakeCall, requests, historyFrom >>

\* The variables the helper functions of the script read and write, as one
\* record, so that a handler is the composition of the calls it makes.
Cur ==
    [ totalQuestions |-> totalQuestions, answeredQuestions |-> answeredQuestions,
      correctAnswers |-> correctAnswers, previousQuestions |-> previousQuestions,
      outputHidden |-> outputHidden, videoContainer |-> videoContainer,
      errorMessage |-> errorMessage, questionsList |-> questionsList,
      resultsContainer |-> resultsContainer, loaderShown |-> loaderShown,
      generateDisabled |-> generateDisabled ]

Commit(s) ==
    /\ totalQuestions' = s.totalQuestions
    /\ answeredQuestions' = s.answeredQuestions
    /\ correctAnswers' = s.correctAnswers
    /\ previousQuestions' = s.previousQuestions
    /\ outputHidden' = s.outputHidden
    /\ videoContainer' = s.videoContainer
    /\ errorMessage' = s.errorMessage
    /\ questionsList' = s.questionsList
    /\ resultsContainer' = s.resultsContainer
    /\ loaderShown' = s.loaderShown
    /\ generateDisabled' = s.generateDisabled

\* ------------------------------------------------------ helper functions
\* setLoading without its else branch.
setLoadingOnOnly(s, isLoading) ==
    IF isLoading THEN [s EXCEPT !.loaderShown = TRUE, !.generateDisabled = TRUE] ELSE s

setLoading(s, isLoading) ==
    [s EXCEPT !.loaderShown = isLoading, !.generateDisabled = isLoading]

clearOutput(s) ==
    [s EXCEPT !.errorMessage = Null,
              !.questionsList = <<>>,
              !.resultsContainer = Null]

displayError(s, message) ==
    LET c == clearOutput(s)
    IN [c EXCEPT !.videoContainer = Null,
                 !.errorMessage = Some(message)]

\* match && match[2].length === 11 ? match[2] : null
getYouTubeID(url) ==
    IF url.marker /\ url.tokenLen = VideoIdLen THEN Some(url.token) ELSE Null

\* ------------------------------------------------- the percentage, in doubles
\* Math.round((correctAnswers / totalQuestions) * 100) is computed in IEEE-754
\* binary64: the quotient is rounded to 53 bits, the product is rounded to 53
\* bits, and Math.round takes the nearest integer, a tie going up.  A double
\* is [m, e]: m the 53-bit significand as four limbs of 14, 13, 13 and 13
\* bits, most significant first, and e the exponent of its leading bit.

RECURSIVE DivNorm(_, _, _)
\* scale r/den into [1/2, 1): the r it yields starts the significand's bits
DivNorm(r, den, e) ==
    IF 2 * r >= den THEN [r |-> r, e |-> e] ELSE DivNorm(2 * r, den, e - 1)

\* the limbs plus one unit in the last place when up, carries propagated
RoundLimbs(q1, q2, q3, q4, up) ==
    LET s4 == q4 + (IF up THEN 1 ELSE 0)
        s3 == q3 + s4 \div 2^13
        s2 == q2 + s3 \div 2^13
        s1 == q1 + s2 \div 2^13
    IN <<s1, s2 % 2^13, s3 % 2^13, s4 % 2^13>>

\* the double nearest to c / t (ties to even), for 0 < c <= t
FloatDiv(c, t) ==
    LET den == 2 * t
        n   == DivNorm(c, den, 0)
        q1  == (n.r * 2^14) \div den
        r1  == (n.r * 2^14) % den
        q2  == (r1 * 2^13) \div den
        r2  == (r1 * 2^13) % den
        q3  == (r2 * 2^13) \div den
        r3  == (r2 * 2^13) % den
        q4  == (r3 * 2^13) \div den
        r4  == (r3 * 2^13) % den
        g   == 2 * r4 >= den                        \* the first bit dropped
        s   == IF g THEN 2 * r4 > den ELSE r4 > 0    \* any later bit set
    IN [m |-> RoundLimbs(q1, q2, q3, q4, g /\ (s \/ q4 % 2 = 1)), e |-> n.e]

\* the double nearest to x * 100 (ties to even); its last limb has 13 - d bits
FloatMul100(x) ==
    LET v4 == x.m[4] * 100
        v3 == x.m[3] * 100 + v4 \div 2^13
        v2 == x.m[2] * 100 + v3 \div 2^13
        v1 == x.m[1] * 100 + v2 \div 2^13
        p4 == v4 % 2^13
        d  == IF v1 >= 2^20 THEN 7 ELSE 6            \* bits beyond the 53 kept
        g  == (p4 \div 2^(d - 1)) % 2 = 1
        s  == p4 % 2^(d - 1) > 0
        k4 == p4 \div 2^d
        up == g /\ (s \/ k4 % 2 = 1)
        s4 == k4 + (IF up THEN 1 ELSE 0)
        s3 == (v3 % 2^13) + s4 \div 2^(13 - d)
        s2 == (v2 % 2^13) + s3 \div 2^13
        s1 == v1 + s2 \div 2^13
    IN [m |-> <<s1, s2 % 2^13, s3 % 2^13, s4 % 2^(13 - d)>>, e |-> x.e]

\* Math.round of a product FloatMul100 made: its first limb holds the bits
\* down to 2^(e - 13), so the integer part and the bit worth 1/2 lie in it
MathRound(y) ==
    IF 12 - y.e > 21 THEN 0
    ELSE (y.m[1] \div 2^(13 - y.e)) + ((y.m[1] \div 2^(12 - y.e)) % 2)

Percentage(correct, total) ==
    IF correct = 0 THEN 0 ELSE MathRound(FloatMul100(FloatDiv(correct, total)))

\* ------------------------------------------------------------- the scorer
ResultsTitle(percentage) ==
    IF percentage = 100 THEN "Perfect Score!"
    ELSE IF percentage >= 75 THEN "Great Job!"
    ELSE IF percentage >= 50 THEN "Not Bad!"
    ELSE "Better Luck Next Time!"

displayResults(s) ==
    LET percentage == Percentage(s.correctAnswers, s.totalQuestions)
    IN [s EXCEPT !.resultsContainer =
            Some([ title |-> ResultsTitle(percentage),
                   correct |-> s.correctAnswers, total |-> s.totalQuestions,
                   percentage |-> percentage ])]

\* ----------------------------------------------------------- the renderer
\* One question block: the question, whether its options container has
\* class 'answered', each option label's classes, and whether the radio
\* inputs are disabled.
NewBlock(q) ==
    [ q |-> q, answered |-> FALSE,
      classes |-> [i \in 1..Len(q.options) |-> {}], disabled |-> FALSE ]

\* allOptionElements.find(opt => input.value === correctAnswer): the first
\* option with the answer's text, 0 when there is none
FindCorrect(q) ==
    LET hits == { j \in 1..Len(q.options) : q.options[j] = q.answer }
    IN IF hits = {} THEN 0 ELSE CHOOSE j \in hits : \A k \in hits : j <= k

\* checkAnswer that counts every selection as correct.
checkAnswerCountingAll(s, b, i) ==
    LET blk     == s.questionsList[b]
        q       == blk.q
        right   == q.options[i] = q.answer
        found   == FindCorrect(q)
        cleared == [j \in 1..Len(q.options) |-> blk.classes[j] \ {"selected"}]
        marked  == [j \in 1..Len(q.options) |->
                      IF j = i
                      THEN cleared[j] \cup {"selected"} \cup (IF right THEN {"correct"} ELSE {"incorrect"})
                      ELSE IF ~right /\ j = found THEN cleared[j] \cup {"correct"}
                      ELSE cleared[j]]
    IN [s EXCEPT !.questionsList[b].classes = marked,
                 !.questionsList[b].disabled = TRUE,
                 !.correctAnswers = @ + 1]

\* checkAnswer on block b with option i selected
checkAnswer(s, b, i) ==
    LET blk     == s.questionsList[b]
        q       == blk.q
        right   == q.options[i] = q.answer
        found   == FindCorrect(q)
        cleared == [j \in 1..Len(q.options) |-> blk.classes[j] \ {"selected"}]
        marked  == [j \in 1..Len(q.options) |->
                      IF j = i
                      THEN cleared[j] \cup {"selected"} \cup (IF right THEN {"correct"} ELSE {"incorrect"})
                      ELSE IF ~right /\ j = found THEN cleared[j] \cup {"correct"}
                      ELSE cleared[j]]
    IN [s EXCEPT !.questionsList[b].classes = marked,
                 !.questionsList[b].disabled = TRUE,
                 !.correctAnswers = IF right THEN @ + 1 ELSE @]

\* optionClick without the early return on an answered block.
optionClickUnguarded(s, b, i) ==
    LET c == checkAnswer(s, b, i)
        a == [c EXCEPT !.questionsList[b].answered = TRUE,
                       !.answeredQuestions = @ + 1]
    IN IF a.answeredQuestions = a.totalQuestions THEN displayResults(a) ELSE a

\* the click listener of option i of block b
optionClick(s, b, i) ==
    IF s.questionsList[b].answered THEN s
    ELSE LET c == checkAnswer(s, b, i)
             a == [c EXCEPT !.questionsList[b].answered = TRUE,
                            !.answeredQuestions = @ + 1]
         IN IF a.answeredQuestions = a.totalQuestions THEN displayResults(a) ELSE a

\* renderQuestions without the assignment correctAnswers = 0.
renderQuestionsKeepingCorrect(s, questions) ==
    IF Len(questions) = 0
    THEN displayError(s, "No questions were generated.")
    ELSE [s EXCEPT !.totalQuestions = Len(questions),
                   !.answeredQuestions = 0,
                   !.questionsList = @ \o [i \in 1..Len(questions) |-> NewBlock(questions[i])]]

\* renderQuestions without the check for an empty list.
renderQuestionsUnchecked(s, questions) ==
    [s EXCEPT !.totalQuestions = Len(questions),
              !.answeredQuestions = 0,
              !.correctAnswers = 0,
              !.questionsList = @ \o [i \in 1..Len(questions) |-> NewBlock(questions[i])]]

renderQuestions(s, questions) ==
    IF Len(questions) = 0
    THEN displayError(s, "No questions were generated.")
    ELSE [s EXCEPT !.totalQuestions = Len(questions),
                   !.answeredQuestions = 0,
                   !.correctAnswers = 0,
                   !.questionsList = @ \o [i \in 1..Len(questions) |-> NewBlock(questions[i])]]

\* ---------------------------------------------------------- the generator
\* the prompt: the fixed instruction, the texts of the questions to avoid
\* when there are any, and the transcript
\* Prompt that lists only the last question to avoid.
PromptLatestOnly(transcript, existingQuestions) ==
    LET n == Len(existingQuestions)
        k == IF n > 1 THEN n - 1 ELSE 0
    IN [ avoid |-> [i \in 1..(n - k) |-> existingQuestions[k + i].question],
         transcript |-> transcript.body ]

Prompt(transcript, existingQuestions) ==
    [ avoid |-> [i \in 1..Len(existingQuestions) |-> existingQuestions[i].question],
      transcript |-> transcript.body ]

\* generateQuiz up to its await
generateQuizCall(s, videoId) ==
    LET embedded == IF videoId # Null THEN [s EXCEPT !.videoContainer = videoId] ELSE s
    IN clearOutput([embedded EXCEPT !.outputHidden = FALSE])

\* generateQuizReturn with previousQuestions = quizData in place of the push.
generateQuizReturnReplacing(s, response) ==
    IF ~response.ok
    THEN displayError(s, "Failed to generate quiz.")
    ELSE renderQuestions([s EXCEPT !.previousQuestions = response.quizData],
                         response.quizData)

\* generateQuiz from its await on: the call threw or its text did not parse
\* (catch), or quizData is pushed to the history and rendered
generateQuizReturn(s, response) ==
    IF ~response.ok
    THEN displayError(s, "Failed to generate quiz.")
    ELSE renderQuestions([s EXCEPT !.previousQuestions = @ \o response.quizData],
                         response.quizData)

\* ------------------------------------------------------------------ Init
\* The script's initial values; the document as the page loads it, which is
\* the idle state the restart handler returns to.
Init ==
    /\ totalQuestions = 0
    /\ answeredQuestions = 0
    /\ correctAnswers = 0
    /\ currentTranscript = Null
    /\ currentVideoId = Null
    /\ previousQuestions = <<>>
    /\ urlInput = EmptyUrl
    /\ transcriptInput = EmptyText
    /\ formError = Null
    /\ outputHidden = TRUE
    /\ videoContainer = Null
    /\ errorMessage = Null
    /\ questionsList = <<>>
    /\ resultsContainer = Null
    /\ loaderShown = FALSE
    /\ generateDisabled = FALSE
    /\ retakeDisabled = FALSE
    /\ restartDisabled = FALSE
    /\ submitCall = Null
    /\ retakeCall = Null
    /\ requests = 0
    /\ historyFrom = {}

\* what a suspended handler's record keeps of the session state it was
\* triggered in (a retake's record also keeps the video embedded then)
Session == [ transcript |-> currentTranscript, videoId |-> currentVideoId,
             history |-> previousQuestions ]

\* --------------------------------------------------------------- actions
\* the two checks of the submit handler, in its order: which one rejects
\* the form, or "ok"
\* validate with the length check left out: any non-empty transcript passes.
validateNoLength(videoId, transcript) ==
    IF videoId = Null THEN "url"
    ELSE IF length(transcript) = 0 THEN "transcript"
    ELSE "ok"

validate(videoId, transcript) ==
    IF videoId = Null THEN "url"
    ELSE IF length(transcript) = 0 \/ length(transcript) < MinTranscriptLen THEN "transcript"
    ELSE "ok"

FormErrorText(verdict) ==
    IF verdict = "url" THEN "Please enter a valid YouTube video URL."
    ELSE "Please paste the transcript. It must be at least 100 characters long."

\* The form's submit event, with url and text typed into the two fields.
\* The event fires only while the submit button is enabled.
Submit(url, text) ==
    LET transcript == trim(text)
        videoId    == getYouTubeID(url)
        verdict    == validate(videoId, transcript)
    IN /\ ~generateDisabled
       /\ urlInput' = url
       /\ transcriptInput' = text
       /\ IF verdict # "ok"
          THEN /\ formError' = Some(FormErrorText(verdict))
               /\ UNCHANGED << totalQuestions, answeredQuestions, correctAnswers,
                               currentTranscript, currentVideoId, previousQuestions,
                               outputHidden, videoContainer, errorMessage, questionsList,
                               resultsContainer, loaderShown, generateDisabled,
                               retakeDisabled, restartDisabled, submitCall, retakeCall, requests,
                               historyFrom >>
          ELSE /\ requests < MaxRequests
               /\ formError' = Null
               /\ LET loading == clearOutput(setLoading(Cur, TRUE))
                      reset   == [loading EXCEPT !.videoContainer = Null,
                                                 !.previousQuestions = <<>>]
                  IN Commit(generateQuizCall(reset, videoId))
               /\ submitCall' = Some([ transcript |-> transcript, videoId |-> videoId,
                                       prompt |-> Prompt(transcript, <<>>),
                                       before |-> Session ])
               /\ requests' = requests + 1
               /\ historyFrom' = {}
               /\ UNCHANGED << currentTranscript, currentVideoId,
                               retakeDisabled, restartDisabled, retakeCall >>

\* The submit handler resumed: the generation call has returned.
SubmitReturn(response) ==
    /\ submitCall # Null
    /\ Commit(setLoading(generateQuizReturn(Cur, response), FALSE))
    /\ currentTranscript' = Some(submitCall[1].transcript)
    /\ currentVideoId' = submitCall[1].videoId
    /\ submitCall' = Null
    /\ historyFrom' = IF response.ok /\ response.quizData # <<>>
                      THEN historyFrom \cup {submitCall[1].prompt.transcript}
                      ELSE historyFrom
    /\ UNCHANGED << urlInput, transcriptInput, formError,
                    retakeDisabled, restartDisabled, retakeCall, requests >>

\* Restart with the assignment previousQuestions = [] left out.
RestartKeepingHistory ==
    /\ ~restartDisabled
    /\ Commit(clearOutput([Cur EXCEPT !.outputHidden = TRUE, !.videoContainer = Null]))
    /\ urlInput' = EmptyUrl
    /\ transcriptInput' = EmptyText
    /\ currentTranscript' = Null
    /\ currentVideoId' = Null
    /\ formError' = Null
    /\ UNCHANGED << retakeDisabled, restartDisabled, submitCall, retakeCall, requests,
                    historyFrom >>

\* Restart with the assignment currentTranscript = null left out.
RestartKeepingTranscript ==
    /\ ~restartDisabled
    /\ Commit(clearOutput([Cur EXCEPT !.outputHidden = TRUE,
                                      !.videoContainer = Null,
                                      !.previousQuestions = <<>>]))
    /\ urlInput' = EmptyUrl
    /\ transcriptInput' = EmptyText
    /\ currentVideoId' = Null
    /\ formError' = Null
    /\ historyFrom' = {}
    /\ UNCHANGED << currentTranscript, retakeDisabled, restartDisabled,
                    submitCall, retakeCall, requests >>

\* A click on the restart button.
Restart ==
    /\ ~restartDisabled
    /\ Commit(clearOutput([Cur EXCEPT !.outputHidden = TRUE,
                                      !.videoContainer = Null,
                                      !.previousQuestions = <<>>]))
    /\ urlInput' = EmptyUrl
    /\ transcriptInput' = EmptyText
    /\ currentTranscript' = Null
    /\ currentVideoId' = Null
    /\ formError' = Null
    /\ historyFrom' = {}
    /\ UNCHANGED << retakeDisabled, restartDisabled, submitCall, retakeCall, requests >>

\* A click on the retake button.
Retake ==
    /\ ~retakeDisabled
    /\ IF currentTranscript # Null /\ currentVideoId # Null
       THEN /\ requests < MaxRequests
            /\ retakeDisabled' = TRUE
            /\ restartDisabled' = TRUE
            /\ Commit(generateQuizCall([Cur EXCEPT !.loaderShown = TRUE], Null))
            /\ retakeCall' = Some([ prompt |-> Prompt(currentTranscript[1], previousQuestions),
                                    before |-> Session, video |-> videoContainer ])
            /\ requests' = requests + 1
            /\ UNCHANGED << currentTranscript, currentVideoId, urlInput, transcriptInput,
                            formError, submitCall, historyFrom >>
       ELSE UNCHANGED vars

\* The retake handler resumed: the generation call has returned.
RetakeReturn(response) ==
    /\ retakeCall # Null
    /\ Commit([generateQuizReturn(Cur, response) EXCEPT !.loaderShown = FALSE])
    /\ retakeDisabled' = FALSE
    /\ restartDisabled' = FALSE
    /\ retakeCall' = Null
    /\ historyFrom' = IF response.ok /\ response.quizData # <<>>
                      THEN historyFrom \cup {retakeCall[1].prompt.transcript}
                      ELSE historyFrom
    /\ UNCHANGED << currentTranscript, currentVideoId, urlInput, transcriptInput,
                    formError, submitCall, requests >>

\* A click on option i of question block b.
OptionClick(b, i) ==
    /\ b \in 1..Len(questionsList)
    /\ i \in 1..Len(questionsList[b].q.options)
    /\ Commit(optionClick(Cur, b, i))
    /\ UNCHANGED << currentTranscript, currentVideoId, urlInput, transcriptInput, formError,
                    retakeDisabled, restartDisabled, submitCall, retakeCall, requests,
                    historyFrom >>

Next ==
    \/ \E f \in Forms : Submit(f[1], f[2])
    \/ \E response \in Responses : SubmitReturn(response)
    \/ Restart
    \/ Retake
    \/ \E response \in Responses : RetakeReturn(response)
    \/ \E b \in 1..Len(questionsList) : \E i \in 1..Len(questionsList[b].q.options) : OptionClick(b, i)

Spec == Init /\ [][Next]_vars

\* Every generation call returns: a suspended handler is resumed once its
\* call has settled, and a call in flight settles (it resolves or rejects).
LiveSpec ==
    /\ Init /\ [][Next]_vars
    /\ WF_vars(\E response \in Responses : SubmitReturn(response))
    /\ WF_vars(\E response \in Responses : RetakeReturn(response))

\* ---------------------------------------------------------------- claims
\* a generation that fails: the call threw or its text did not parse, or
\* the parsed list is empty
Failed(response) == ~response.ok \/ response.quizData = <<>>

\* C1: at most one generation request is outstanding at any time: a second
\* request is never started before the first one has returned.
C1_AtMostOneRequest == ~(submitCall # Null /\ retakeCall # Null)

\* C2: in every reachable state answeredQuestions <= totalQuestions.
C2_AnsweredAtMostTotal == answeredQuestions <= totalQuestions

\* C3: the results are displayed only while every question block in the
\* question list is locked.
C3_ResultsOnlyWhenAllLocked ==
    resultsContainer # Null =>
        \A b \in 1..Len(questionsList) : questionsList[b].answered

\* C4: when the generation of a submit or a retake fails, currentTranscript,
\* currentVideoId and the question history are, once the handler has
\* finished, what they were when it was triggered.
C4_FailureKeepsSession ==
    [][ \A response \in Responses :
          Failed(response) =>
            /\ SubmitReturn(response) =>
                 /\ currentTranscript' = submitCall[1].before.transcript
                 /\ currentVideoId' = submitCall[1].before.videoId
                 /\ previousQuestions' = submitCall[1].before.history
            /\ RetakeReturn(response) =>
                 /\ currentTranscript' = retakeCall[1].before.transcript
                 /\ currentVideoId' = retakeCall[1].before.videoId
                 /\ previousQuestions' = retakeCall[1].before.history ]_vars

\* C5: right after a restart click currentTranscript and currentVideoId are
\* absent, the history is empty, and the question list, the results, the
\* error block and the embedded video are cleared.
C5_RestartClearsAll ==
    [][ Restart =>
          /\ currentTranscript' = Null
          /\ currentVideoId' = Null
          /\ previousQuestions' = <<>>
          /\ questionsList' = <<>>
          /\ resultsContainer' = Null
          /\ errorMessage' = Null
          /\ videoContainer' = Null ]_vars

\* a restart has acted on a session with two finished requests behind it:
\* only restart hides the output container again
C5_Witness ==
    /\ requests >= 2
    /\ submitCall = Null /\ retakeCall = Null
    /\ outputHidden
    /\ currentTranscript = Null /\ previousQuestions = <<>>

\* the question texts of a question list, as a prompt lists them
QuestionTexts(questions) == [i \in 1..Len(questions) |-> questions[i].question]

\* C6: every retake request carries the whole question history as its
\* exclusion list, in order, and a retake never changes currentTranscript or
\* currentVideoId, neither when it is clicked nor when its call returns.
C6_RetakeCarriesHistory ==
    [][ /\ Retake =>
             /\ UNCHANGED << currentTranscript, currentVideoId >>
             /\ retakeCall' # retakeCall =>
                  /\ retakeCall'[1].prompt.avoid = QuestionTexts(previousQuestions)
                  /\ retakeCall'[1].prompt.transcript = currentTranscript[1].body
        /\ \A response \in Responses :
             RetakeReturn(response) => UNCHANGED << currentTranscript, currentVideoId >> ]_vars

\* a retake request in flight whose exclusion list holds the two questions of
\* the initial generation followed by the question of an earlier retake
C6_Witness ==
    /\ retakeCall # Null
    /\ retakeCall[1].prompt.avoid = <<"q1", "q2", "q2">>
    /\ currentTranscript # Null

\* C7: a submit whose URL yields no video identifier, or whose trimmed
\* transcript is shorter than 100 characters, starts no request and leaves
\* the session state, the score counters and the rendered output (video,
\* questions, results, error block) as they were; the form error is shown.
C7_RejectedSubmitChangesNothing ==
    [][ \A f \in Forms :
          (Submit(f[1], f[2]) /\ (getYouTubeID(f[1]) = Null \/ length(trim(f[2])) < MinTranscriptLen)) =>
            /\ formError' # Null
            /\ UNCHANGED << submitCall, retakeCall, requests,
                            currentTranscript, currentVideoId, previousQuestions,
                            totalQuestions, answeredQuestions, correctAnswers,
                            videoContainer, questionsList, resultsContainer,
                            errorMessage, outputHidden >> ]_vars

\* a form error is shown beside a rendered quiz with its video: the submit
\* that was rejected found output on the page
C7_Witness ==
    /\ formError # Null
    /\ questionsList # <<>>
    /\ videoContainer # Null
    /\ currentTranscript # Null

\* C8: a question block is locked by the first click on one of its options,
\* which counts it once; a click on an option of a locked block changes no
\* counter and no marking, and a locked block stays as it is while rendered.
C8_LockedOnce ==
    [][ /\ \A b \in 1..Len(questionsList) : \A i \in 1..Len(questionsList[b].q.options) :
             OptionClick(b, i) =>
               IF questionsList[b].answered
               THEN UNCHANGED << answeredQuestions, correctAnswers, totalQuestions,
                                 questionsList, resultsContainer >>
               ELSE /\ questionsList'[b].answered
                    /\ answeredQuestions' = answeredQuestions + 1
        /\ \A b \in 1..Len(questionsList) :
             (questionsList[b].answered /\ b <= Len(questionsList')) =>
                questionsList'[b] = questionsList[b] ]_vars

\* one block is locked and another is still open: the first click has acted and
\* clicks on the locked block remain possible
C8_Witness ==
    \E b, c \in 1..Len(questionsList) :
        questionsList[b].answered /\ ~questionsList[c].answered

\* round(100 * correct / total), a half rounding up, in exact arithmetic
RoundedPercent(correct, total) == (200 * correct + total) \div (2 * total)

\* C9: the results show percentage = round(100 * correct / total), a half
\* rounding up, and the title of the first tier the percentage reaches.
C9_PercentageAndTitle ==
    resultsContainer # Null =>
        LET r == resultsContainer[1]
            p == RoundedPercent(r.correct, r.total)
        IN /\ r.percentage = p
           /\ r.title = IF p = 100 THEN "Perfect Score!"
                        ELSE IF p >= 75 THEN "Great Job!"
                        ELSE IF p >= 50 THEN "Not Bad!"
                        ELSE "Better Luck Next Time!"

\* C10: in an answered block exactly one option is marked correct, the one
\* whose text is the question's answer, and at most one is marked incorrect.
C10_OneCorrectOption ==
    \A b \in 1..Len(questionsList) :
        questionsList[b].answered =>
            LET blk == questionsList[b]
                n   == Len(blk.q.options)
            IN /\ Cardinality({ j \in 1..n : "correct" \in blk.classes[j] }) = 1
               /\ \A j \in 1..n : "correct" \in blk.classes[j] => blk.q.options[j] = blk.q.answer
               /\ Cardinality({ j \in 1..n : "incorrect" \in blk.classes[j] }) <= 1

\* C11: currentTranscript and currentVideoId are both present or both absent
\* in every state; a step that changes either of them is the return of a
\* submit, which sets both, or a restart, which clears both.
C11_TranscriptAndIdTogether ==
    /\ [](currentTranscript = Null <=> currentVideoId = Null)
    /\ [][ (currentTranscript' # currentTranscript \/ currentVideoId' # currentVideoId) =>
             \/ /\ \E response \in Responses : SubmitReturn(response)
                /\ currentTranscript' # Null /\ currentVideoId' # Null
             \/ /\ Restart
                /\ currentTranscript' = Null /\ currentVideoId' = Null ]_vars

\* a submit has returned and stored both, and a retake is in flight on them
C11_Witness ==
    /\ currentTranscript # Null /\ currentVideoId # Null
    /\ submitCall = Null
    /\ retakeCall # Null


\* C12: when a retake completes, whatever its call delivered, the video that
\* was embedded when retake was clicked is still embedded.
C12_RetakeKeepsVideo ==
    [][ \A response \in Responses :
          (RetakeReturn(response) /\ retakeCall[1].video # Null) =>
              videoContainer' = retakeCall[1].video ]_vars


\* the sequence a starts the sequence b
IsPrefix(a, b) == Len(a) <= Len(b) /\ SubSeq(b, 1, Len(a)) = a

C14_EmptyListShowsError ==
    [][ \A response \in Responses :
          ((SubmitReturn(response) \/ RetakeReturn(response))
              /\ response.ok /\ response.quizData = <<>>) =>
            /\ errorMessage' = Some("No questions were generated.")
            /\ questionsList' = <<>>
            /\ resultsContainer' = Null
            /\ previousQuestions' = previousQuestions ]_vars

\* the error is shown after a retake that found a non-empty history
C14_Witness ==
    /\ errorMessage = Some("No questions were generated.")
    /\ previousQuestions # <<>>
    /\ retakeCall = Null


\* C15: when a call returns a non-empty list of N questions, rendering it
\* sets totalQuestions = N, answeredQuestions = 0 and correctAnswers = 0; the
\* first click in a question block adds exactly 1 to answeredQuestions, and
\* adds exactly 1 to correctAnswers when the clicked option's text is the
\* question's answer and nothing otherwise.
C15_RenderAndCount ==
    [][ /\ \A response \in Responses :
             ((SubmitReturn(response) \/ RetakeReturn(response))
                 /\ response.ok /\ response.quizData # <<>>) =>
               /\ totalQuestions' = Len(response.quizData)
               /\ answeredQuestions' = 0
               /\ correctAnswers' = 0
        /\ \A b \in 1..Len(questionsList) : \A i \in 1..Len(questionsList[b].q.options) :
             (OptionClick(b, i) /\ ~questionsList[b].answered) =>
               /\ answeredQuestions' = answeredQuestions + 1
               /\ totalQuestions' = totalQuestions
               /\ correctAnswers' =
                    IF questionsList[b].q.options[i] = questionsList[b].q.answer
                    THEN correctAnswers + 1 ELSE correctAnswers ]_vars

\* of two rendered questions one has been answered, correctly, and one has
\* been answered with an option that is not its answer
C15_Witness ==
    /\ totalQuestions = 2 /\ Len(questionsList) = 2
    /\ answeredQuestions = 2
    /\ correctAnswers = 1


\* C16: whenever question blocks are rendered, totalQuestions is the number
\* of blocks in the question list and answeredQuestions is the number of
\* those blocks that are locked.
C16_CountersMatchBlocks ==
    questionsList # <<>> =>
        /\ totalQuestions = Len(questionsList)
        /\ answeredQuestions =
             Cardinality({ b \in 1..Len(questionsList) : questionsList[b].answered })


\* C17: a response to a request that was started before a restart changes
\* nothing of the cleared session: it sets neither currentTranscript nor
\* currentVideoId, appends nothing to the history and renders no question.
\* While a request is in flight the output container is hidden exactly when
\* restart has been clicked since the request was started: both handlers
\* unhide it as they start their request and only restart hides it.
C17_RestartStaysCleared ==
    [][ \A response \in Responses :
          ((SubmitReturn(response) \/ RetakeReturn(response)) /\ outputHidden) =>
            /\ currentTranscript' = Null
            /\ currentVideoId' = Null
            /\ previousQuestions' = <<>>
            /\ questionsList' = <<>> ]_vars


\* C18: whenever no request is in flight and currentTranscript is set, every
\* question in the history was returned by a call whose prompt was made with
\* currentTranscript.
C18_HistoryOfCurrentTranscript ==
    (submitCall = Null /\ retakeCall = Null /\ currentTranscript # Null) =>
        historyFrom \subseteq {currentTranscript[1].body}


\* C19: when every generation call returns, every submit in flight leads to
\* a state where it has completed with the generate button enabled and the
\* loader hidden, every retake in flight to one where it has completed with
\* the retake and restart buttons enabled and the loader hidden; and in
\* every state with no request in flight the three buttons are enabled and
\* the loader is hidden.
C19_ControlsReenabled ==
    /\ [](submitCall = Null /\ retakeCall = Null =>
            ~generateDisabled /\ ~retakeDisabled /\ ~restartDisabled /\ ~loaderShown)
    /\ (submitCall # Null) ~> (submitCall = Null /\ ~generateDisabled /\ ~loaderShown)
    /\ (retakeCall # Null) ~>
           (retakeCall = Null /\ ~retakeDisabled /\ ~restartDisabled /\ ~loaderShown)

\* a submit and a retake have both completed, the retake on an error, and
\* every control is enabled again
C19_Witness ==
    /\ requests >= 2
    /\ submitCall = Null /\ retakeCall = Null
    /\ currentTranscript # Null
    /\ errorMessage = Some("Failed to generate quiz.")
    /\ previousQuestions # <<>>
    /\ ~generateDisabled /\ ~retakeDisabled /\ ~restartDisabled /\ ~loaderShown


\* C20: in every state 0 <= correctAnswers <= answeredQuestions, and the
\* percentage of displayed results lies between 0 and 100.
C20_CorrectAtMostAnswered ==
    /\ 0 <= correctAnswers
    /\ correctAnswers <= answeredQuestions
    /\ resultsContainer # Null =>
         /\ 0 <= resultsContainer[1].percentage
         /\ resultsContainer[1].percentage <= 100

\* results are displayed for a quiz of two questions of which one was
\* answered correctly
C20_Witness ==
    /\ resultsContainer # Null
    /\ resultsContainer[1].correct = 1
    /\ resultsContainer[1].total = 2
    /\ resultsContainer[1].percentage = 50


\* ------------------------------------------ the scorer on its own inputs
\* The results display applied to every score a finished quiz of up to
\* MaxTotal questions can have.
ScoreInit ==
    /\ totalQuestions \in 1..MaxTotal
    /\ answeredQuestions = totalQuestions
    /\ correctAnswers \in 0..totalQuestions
    /\ currentTranscript = Null
    /\ currentVideoId = Null
    /\ previousQuestions = <<>>
    /\ urlInput = EmptyUrl
    /\ transcriptInput = EmptyText
    /\ formError = Null
    /\ outputHidden = FALSE
    /\ videoContainer = Null
    /\ errorMessage = Null
    /\ questionsList = <<>>
    /\ resultsContainer = Null
    /\ loaderShown = FALSE
    /\ generateDisabled = FALSE
    /\ retakeDisabled = FALSE
    /\ restartDisabled = FALSE
    /\ submitCall = Null
    /\ retakeCall = Null
    /\ requests = 0
    /\ historyFrom = {}

ShowResults ==
    /\ resultsContainer = Null
    /\ Commit(displayResults(Cur))
    /\ UNCHANGED << currentTranscript, currentVideoId, urlInput, transcriptInput, formError,
                    retakeDisabled, restartDisabled, submitCall, retakeCall, requests,
                    historyFrom >>

ScoreSpec == ScoreInit /\ [][ShowResults]_vars
====
